---- MODULE Spec2Model ----
(***************************************************************************)
(* Model of the command registry of src/_.interface.rs: register_command,  *)
(* find_command, get_suggestions and execute_command, and of the           *)
(* interactive prompt that reads key events and calls the registry.        *)
(*                                                                         *)
(* A Rust String is a sequence of one-character strings, so that trim,     *)
(* split_whitespace, starts_with, contains, split_once, join and format!   *)
(* are computed character by character.  Option<T> is a sequence of        *)
(* length 0 (None) or 1 (Some(x)).                                         *)
(***************************************************************************)
EXTENDS Integers, Sequences, FiniteSets, TLC

VARIABLES commands, supplied, call_input, inventory, inventory_call, last, prompt, event, pc, terminal

vars == <<commands, supplied, call_input, inventory, inventory_call, last, prompt, event, pc, terminal>>

(***************************************************************************)
(* Bounds of the model.                                                    *)
(***************************************************************************)
MaxTokens == 3
MaxCommands == 3
MaxPaddedTokens == 1
MaxKeys == 5

(***************************************************************************)
(* Option<T>                                                               *)
(***************************************************************************)
None == <<>>
Some(x) == <<x>>
IsSome(o) == Len(o) = 1
Unwrap(o) == o[1]

(***************************************************************************)
(* std::str operations on character sequences.                             *)
(***************************************************************************)
SP == " "
COLON == ":"

IsWhitespace(c) == c = SP

RECURSIVE TrimStart(_)
TrimStart(s) ==
    IF s # <<>> /\ IsWhitespace(Head(s)) THEN TrimStart(Tail(s)) ELSE s

RECURSIVE TrimEnd(_)
TrimEnd(s) ==
    IF s # <<>> /\ IsWhitespace(s[Len(s)])
    THEN TrimEnd(SubSeq(s, 1, Len(s) - 1))
    ELSE s

Trim(s) == TrimEnd(TrimStart(s))

\* str::split_whitespace: the maximal runs of non-whitespace characters.
RECURSIVE SplitFrom(_, _, _)
SplitFrom(s, cur, acc) ==
    IF s = <<>>
    THEN IF cur = <<>> THEN acc ELSE Append(acc, cur)
    ELSE IF IsWhitespace(Head(s))
         THEN SplitFrom(Tail(s), <<>>, IF cur = <<>> THEN acc ELSE Append(acc, cur))
         ELSE SplitFrom(Tail(s), Append(cur, Head(s)), acc)

SplitWhitespace(s) == SplitFrom(s, <<>>, <<>>)

\* [&str]::join(" ")
RECURSIVE Join(_)
Join(parts) ==
    IF parts = <<>> THEN <<>>
    ELSE IF Len(parts) = 1 THEN parts[1]
    ELSE parts[1] \o <<SP>> \o Join(Tail(parts))

\* starts_with replaced by an equality test.
StartsWithExact(s, p) == s = p

StartsWith(s, p) == Len(p) <= Len(s) /\ SubSeq(s, 1, Len(p)) = p

Contains(s, c) == \E i \in 1..Len(s) : s[i] = c

\* str::split_once(':'): split at the first ':'.
SplitOnce(s) ==
    IF Contains(s, COLON)
    THEN LET i == CHOOSE k \in 1..Len(s) :
                    s[k] = COLON /\ \A j \in 1..(k - 1) : s[j] # COLON
         IN Some(<<SubSeq(s, 1, i - 1), SubSeq(s, i + 1, Len(s))>>)
    ELSE None

\* Iterator::find(|c| c.name == name): the first command of that name.
FirstOf(matching) == IF matching = <<>> THEN None ELSE Some(matching[1])

FindByName(cmds, name) == FirstOf(SelectSeq(cmds, LAMBDA c : c.name = name))

\* format!("{}", i32)
DigitChars == <<"0", "1", "2", "3", "4", "5", "6", "7", "8", "9">>

RECURSIVE NatToString(_)
NatToString(n) ==
    IF n < 10 THEN <<DigitChars[n + 1]>>
    ELSE NatToString(n \div 10) \o <<DigitChars[(n % 10) + 1]>>

IntToString(n) == IF n < 0 THEN <<"-">> \o NatToString(0 - n) ELSE NatToString(n)

(***************************************************************************)
(* CommandArg and Command values.                                          *)
(***************************************************************************)
TypeInt == <<"i", "n", "t">>
TypeString == <<"s", "t", "r", "i", "n", "g">>

CommandArg(name, arg_type, range, optional, default) ==
    [name |-> name, arg_type |-> arg_type, range |-> range,
     optional |-> optional, default |-> default]

Command(name, args, subcommands, handler) ==
    [name |-> name, args |-> args, subcommands |-> subcommands, handler |-> handler]

(***************************************************************************)
(* The commands a caller registers.  The argument lists are given in the   *)
(* caller's order, optional arguments before required ones included.       *)
(***************************************************************************)
ArgItem == CommandArg(<<"a">>, TypeString, None, FALSE, None)
ArgCount == CommandArg(<<"b">>, TypeInt, Some(<<1, 9>>), TRUE, Some(<<"9">>))
ArgNote == CommandArg(<<"a">>, TypeString, None, TRUE, None)
ArgLevel == CommandArg(<<"b">>, TypeInt, None, FALSE, None)
ArgMode == CommandArg(<<"a">>, TypeString, None, FALSE, Some(<<"b">>))

CmdLeaf == Command(<<"b">>, <<ArgNote, ArgLevel>>, <<>>, TRUE)
CmdGive == Command(<<"a">>, <<ArgCount, ArgItem>>, <<CmdLeaf>>, TRUE)
CmdDeep == Command(<<"a", "b">>, <<>>, <<CmdGive>>, TRUE)
CmdPlain == Command(<<"a">>, <<ArgMode, ArgLevel>>, <<>>, FALSE)

CommandPool == {CmdLeaf, CmdGive, CmdDeep, CmdPlain}

(***************************************************************************)
(* CommandRegistry::register_command                                       *)
(***************************************************************************)
IsRequired(arg) == ~arg.optional
IsOptional(arg) == arg.optional

\* required.into_iter().chain(optional).collect()
ReorderArgs(args) == SelectSeq(args, IsRequired) \o SelectSeq(args, IsOptional)

RECURSIVE RegisterCommand(_, _)
RECURSIVE RegisterSubcommands(_, _)
RegisterCommand(cmds, command) ==
    LET new_command == [command EXCEPT !.args = ReorderArgs(command.args)]
    IN RegisterSubcommands(Append(cmds, new_command), command.subcommands)

RegisterSubcommands(cmds, subs) ==
    IF subs = <<>> THEN cmds
    ELSE RegisterSubcommands(RegisterCommand(cmds, Head(subs)), Tail(subs))

\* The commands register_command was called with, one per top-level entry
\* (the recursive calls included), in the order of the calls.
RECURSIVE FlattenPreOrder(_)
RECURSIVE FlattenAll(_)
FlattenPreOrder(command) == <<command>> \o FlattenAll(command.subcommands)

FlattenAll(subs) ==
    IF subs = <<>> THEN <<>>
    ELSE FlattenPreOrder(Head(subs)) \o FlattenAll(Tail(subs))

(***************************************************************************)
(* CommandRegistry::find_command                                           *)
(***************************************************************************)
\* parts[0] is indexed without a check.
FindCommandPanics(name) == SplitWhitespace(name) = <<>>

\* A descent that answers a missing subcommand with the command reached.
RECURSIVE DescendKeepCurrent(_, _)
DescendKeepCurrent(current, parts) ==
    IF parts = <<>> THEN Some(current)
    ELSE LET next == FindByName(current.subcommands, Head(parts))
         IN IF IsSome(next) THEN DescendKeepCurrent(Unwrap(next), Tail(parts))
            ELSE Some(current)

RECURSIVE Descend(_, _)
Descend(current, parts) ==
    IF parts = <<>> THEN Some(current)
    ELSE LET next == FindByName(current.subcommands, Head(parts))
         IN IF IsSome(next) THEN Descend(Unwrap(next), Tail(parts)) ELSE None

\* A lookup that resolves the first token only.
FindCommandFirstOnly(cmds, name) ==
    FindByName(cmds, SplitWhitespace(name)[1])

\* The descent from the top-level command found for the first token.
DescendFrom(first, parts) ==
    IF IsSome(first) THEN Descend(Unwrap(first), Tail(parts)) ELSE None

FindCommandParts(cmds, parts) == DescendFrom(FindByName(cmds, parts[1]), parts)

FindCommand(cmds, name) == FindCommandParts(cmds, SplitWhitespace(name))

(***************************************************************************)
(* CommandRegistry::get_suggestions                                        *)
(***************************************************************************)
NoColon(p) == ~Contains(p, COLON)

\* parts.iter().skip(parts.len().min(1)).filter(|p| !p.contains(':')).count()
ArgIndex(parts) ==
    LET skipped == IF Len(parts) < 1 THEN Len(parts) ELSE 1
    IN Len(SelectSeq(SubSeq(parts, skipped + 1, Len(parts)), NoColon))

NoneText == <<"n", "o", "n", "e">>

\* A hint that leaves out the marker of an optional argument.
ArgHintNoMarker(arg) ==
    <<"<">> \o arg.name \o <<COLON>> \o arg.arg_type
    \o (IF IsSome(arg.range)
        THEN <<SP, "{">> \o IntToString(Unwrap(arg.range)[1]) \o <<".", ".">>
             \o IntToString(Unwrap(arg.range)[2]) \o <<"}">>
        ELSE <<>>)
    \o <<">">>

\* The hint built for one argument.
ArgHint(arg) ==
    <<"<">> \o arg.name \o <<COLON>> \o arg.arg_type
    \o (IF IsSome(arg.range)
        THEN <<SP, "{">> \o IntToString(Unwrap(arg.range)[1]) \o <<".", ".">>
             \o IntToString(Unwrap(arg.range)[2]) \o <<"}">>
        ELSE <<>>)
    \o <<">">>
    \o (IF arg.optional
        THEN <<"?">> \o (IF IsSome(arg.default) THEN Unwrap(arg.default) ELSE NoneText)
        ELSE <<>>)

IntPool == <<(<<"0">>), (<<"1">>), (<<"1", "0">>), (<<"1", "0", "0">>)>>

\* The names collected in reverse order.
CommandNamesReversed(cmds) == [i \in 1..Len(cmds) |-> cmds[Len(cmds) + 1 - i].name]

CommandNames(cmds) == [i \in 1..Len(cmds) |-> cmds[i].name]

\* The branch of a last token that contains ':'.
NamedValueSuggestionsAt(command, last_part, arg_index) ==
    IF arg_index < Len(command.args)
    THEN LET arg == command.args[arg_index + 1]
         IN [suggestions |->
                 IF arg.arg_type = TypeInt
                 THEN SelectSeq(IntPool, LAMBDA v : StartsWith(v, last_part))
                 ELSE IF IsSome(arg.default)
                      THEN SelectSeq(<<Unwrap(arg.default)>>,
                                     LAMBDA v : StartsWith(v, last_part))
                      ELSE <<>>,
             hint |-> ArgHint(arg)]
    ELSE [suggestions |-> <<>>, hint |-> <<>>]

NamedValueSuggestions(command, parts) ==
    NamedValueSuggestionsAt(command, parts[Len(parts)], ArgIndex(parts))

\* The branch of a last token without ':'.
\* format!("{} {}", command_path, sub.name).trim() for each matching subcommand.
SubcommandPaths(matching, command_path) ==
    [i \in 1..Len(matching) |-> Trim(command_path \o <<SP>> \o matching[i].name)]

SubcommandSuggestionsAt(command, subs, command_path, arg_index) ==
    IF arg_index < Len(command.args)
    THEN LET arg == command.args[arg_index + 1]
         IN [suggestions |->
                 Append(subs, Trim(command_path \o <<SP>> \o arg.name \o <<COLON>>)),
             hint |-> ArgHint(arg)]
    ELSE [suggestions |-> subs, hint |-> <<>>]

SubcommandSuggestions(command, parts, command_path) ==
    SubcommandSuggestionsAt(
        command,
        SubcommandPaths(SelectSeq(command.subcommands,
                                  LAMBDA c : StartsWith(c.name, parts[Len(parts)])),
                        command_path),
        command_path, ArgIndex(parts))

\* if let Some(command) = self.find_command(&command_path) { .. }
PathSuggestions(found, parts, command_path) ==
    IF IsSome(found)
    THEN IF Contains(parts[Len(parts)], COLON)
         THEN NamedValueSuggestions(Unwrap(found), parts)
         ELSE SubcommandSuggestions(Unwrap(found), parts, command_path)
    ELSE [suggestions |-> <<>>, hint |-> <<>>]

\* The body of get_suggestions, for the tokens of the trimmed input.
PartsSuggestions(cmds, parts, command_path) ==
    IF parts = <<>>
    THEN [suggestions |-> CommandNames(cmds), hint |-> <<>>]
    ELSE IF Len(parts) = 1
    THEN [suggestions |->
              CommandNames(SelectSeq(cmds, LAMBDA c : StartsWith(c.name, parts[1]))),
          hint |-> <<>>]
    ELSE PathSuggestions(FindCommand(cmds, command_path), parts, command_path)

\* parts[..parts.len() - 1].join(" ")
CommandPath(parts) == Join(SubSeq(parts, 1, Len(parts) - 1))

TrimmedParts(input) == SplitWhitespace(Trim(input))

GetSuggestionsParts(cmds, parts) == PartsSuggestions(cmds, parts, CommandPath(parts))

GetSuggestions(cmds, input) == GetSuggestionsParts(cmds, TrimmedParts(input))

(***************************************************************************)
(* CommandRegistry::execute_command                                        *)
(***************************************************************************)
\* A walk that stops at the first prefix that resolves.
DeepestFromFirstMatch(cmds, parts, i, command_len) ==
    IF i > Len(parts) THEN command_len
    ELSE IF IsSome(FindCommand(cmds, Join(SubSeq(parts, 1, i)))) THEN i
         ELSE command_len

\* The loop that finds the deepest command: the number of leading tokens of
\* the command found last before the first prefix that does not resolve.
RECURSIVE DeepestFrom(_, _, _, _)
DeepestFrom(cmds, parts, i, command_len) ==
    IF i > Len(parts) THEN command_len
    ELSE IF IsSome(FindCommand(cmds, Join(SubSeq(parts, 1, i))))
         THEN DeepestFrom(cmds, parts, i + 1, i)
         ELSE command_len

CommandLen(cmds, parts) == DeepestFrom(cmds, parts, 1, 0)

\* positional_args: the tail tokens without ':', in order.
PositionalArgs(tail) == SelectSeq(tail, NoColon)

\* named_args: HashMap::insert over the tail tokens with ':', a later token
\* replacing an earlier one with the same key.
InsertNamed(rest, kv) ==
    IF IsSome(kv)
    THEN [k \in DOMAIN rest \cup {Unwrap(kv)[1]} |->
             IF k = Unwrap(kv)[1] THEN Unwrap(kv)[2] ELSE rest[k]]
    ELSE rest

RECURSIVE NamedArgs(_)
NamedArgs(tail) ==
    IF tail = <<>> THEN [k \in {} |-> <<>>]
    ELSE InsertNamed(NamedArgs(SubSeq(tail, 1, Len(tail) - 1)), SplitOnce(tail[Len(tail)]))

\* A chain that looks at the named value before the positional one.
ArgValueNamedFirst(arg, i, positional_args, named_args) ==
    IF arg.name \in DOMAIN named_args THEN Some(named_args[arg.name])
    ELSE IF i - 1 < Len(positional_args) THEN Some(positional_args[i])
    ELSE arg.default

\* A chain that looks at the default before the named value.
ArgValueDefaultFirst(arg, i, positional_args, named_args) ==
    IF i - 1 < Len(positional_args) THEN Some(positional_args[i])
    ELSE IF IsSome(arg.default) THEN arg.default
    ELSE IF arg.name \in DOMAIN named_args THEN Some(named_args[arg.name])
    ELSE None

\* The value the if-chain inserts for the argument at the 1-based position
\* i: the positional value, else the named one, else the default, else None.
ArgValue(arg, i, positional_args, named_args) ==
    IF i - 1 < Len(positional_args) THEN Some(positional_args[i])
    ELSE IF arg.name \in DOMAIN named_args THEN Some(named_args[arg.name])
    ELSE arg.default

\* The test of the last branch with the condition inverted.
MissingRequiredInverted(arg, value) == value = None /\ arg.optional

\* A last branch that fails for every argument without a value.
MissingRequiredAnyUnbound(arg, value) == value = None

\* The last branch of the chain: no value and the argument is required.
MissingRequired(arg, value) == value = None /\ ~arg.optional

\* The binding loop over command.args; args is the map built so far.
RECURSIVE BindArgs(_, _, _, _, _)
\* One turn of the loop, for the value the if-chain finds for cargs[i].
BindValue(cargs, i, positional_args, named_args, args, value) ==
    IF IsSome(value)
    THEN BindArgs(cargs, i + 1, positional_args, named_args,
                  [k \in DOMAIN args \cup {cargs[i].name} |->
                      IF k = cargs[i].name THEN Unwrap(value) ELSE args[k]])
    ELSE IF MissingRequired(cargs[i], value)
    THEN [kind |-> "missing", arg |-> cargs[i].name, args |-> [k \in {} |-> <<>>]]
    ELSE BindArgs(cargs, i + 1, positional_args, named_args, args)

BindArgs(cargs, i, positional_args, named_args, args) ==
    IF i > Len(cargs) THEN [kind |-> "bound", arg |-> <<>>, args |-> args]
    ELSE BindValue(cargs, i, positional_args, named_args, args,
                   ArgValue(cargs[i], i, positional_args, named_args))

\* The end of execute_command: the missing-argument message, or the
\* handler's result for the map, or None without a handler.
Outcome(command, bound) ==
    IF bound.kind = "missing"
    THEN Some([kind |-> "missing", arg |-> bound.arg, args |-> bound.args])
    ELSE IF command.handler
         THEN Some([kind |-> "handled", arg |-> <<>>, args |-> bound.args])
         ELSE None

\* A binding that starts from the map of every named token.
BindTailKeepingNamed(command, tail) ==
    Outcome(command, BindArgs(command.args, 1, PositionalArgs(tail), NamedArgs(tail),
                              NamedArgs(tail)))

\* The binding of the tokens after the command's path.
BindTail(command, tail) ==
    Outcome(command, BindArgs(command.args, 1, PositionalArgs(tail), NamedArgs(tail),
                              [k \in {} |-> <<>>]))

\* let command = command?; and what follows, for the walk's command_len.
ExecuteResolved(cmds, parts, command_len) ==
    IF command_len = 0 THEN None
    ELSE BindTail(Unwrap(FindCommand(cmds, Join(SubSeq(parts, 1, command_len)))),
                  SubSeq(parts, command_len + 1, Len(parts)))

ExecuteParts(cmds, parts) ==
    IF parts = <<>> THEN None
    ELSE ExecuteResolved(cmds, parts, CommandLen(cmds, parts))

\* The Option<String> returned is None, Some of the missing-argument message
\* for the named argument, or Some of the handler's result for the map it
\* was called with.
ExecuteCommand(cmds, input) == ExecuteParts(cmds, TrimmedParts(input))

(***************************************************************************)
(* The inputs of the calls: up to MaxTokens tokens joined by single        *)
(* spaces, the shortest ones also with surrounding whitespace.             *)
(***************************************************************************)
TokenPool ==
    { <<"a">>, <<"b">>, <<"a", "b">>, <<"1">>,
      <<"a", ":", "b">>, <<"a", ":", "1">>, <<"b", ":", "1">>, <<"a", ":">> }

TokenSeqs(n) == UNION { [1..k -> TokenPool] : k \in 0..n }

Inputs ==
    { Join(ts) : ts \in TokenSeqs(MaxTokens) }
    \cup { <<SP>> \o Join(ts) \o <<SP, SP>> : ts \in TokenSeqs(MaxPaddedTokens) }

(***************************************************************************)
(* The interactive prompt.  Indices (cursor_pos, history_index,            *)
(* selected_suggestion) count from 0 as in the source.                     *)
(***************************************************************************)
DefaultMaxHistory == 50
DefaultMaxSuggestions == 5

Min(a, b) == IF a < b THEN a ELSE b

\* PromptConfig::new followed by with_history, with_max_history and
\* with_max_suggestions: each builder stores its argument as given.
PromptConfig(history, max_history, max_suggestions) ==
    [history |-> history, max_history |-> max_history,
     max_suggestions |-> max_suggestions]

\* InteractivePrompt::new.
InteractivePrompt(config) ==
    [config |-> config, input |-> <<>>, cursor_pos |-> 0, history_index |-> None,
     suggestions |-> <<>>, selected_suggestion |-> None, running |-> TRUE,
     hint |-> <<>>]

\* A recomputation that keeps a selection already made.
WithSuggestionsKeepSelection(p, r) ==
    [p EXCEPT !.suggestions = r.suggestions,
              !.hint = r.hint,
              !.selected_suggestion =
                  IF r.suggestions = <<>> THEN None
                  ELSE IF p.selected_suggestion = None THEN Some(0)
                       ELSE p.selected_suggestion]

\* The assignments of update_suggestions for the pair get_suggestions returned.
WithSuggestions(p, r) ==
    [p EXCEPT !.suggestions = r.suggestions,
              !.hint = r.hint,
              !.selected_suggestion = IF r.suggestions = <<>> THEN None ELSE Some(0)]

UpdateSuggestions(p, cmds) == WithSuggestions(p, GetSuggestions(cmds, p.input))

ExitText == <<"e", "x", "i", "t">>

\* The exit test of Enter.
IsExit(input) == Trim(input) = ExitText

\* A push that never evicts.
PushHistoryKeepAll(history, entry, max_history) == Append(history, entry)

\* The push of Enter: append, then drop the oldest entry if over the cap.
PushHistory(history, entry, max_history) ==
    LET pushed == Append(history, entry)
    IN IF Len(pushed) > max_history THEN Tail(pushed) ELSE pushed

\* A character of two bytes in UTF-8; every other character of the model
\* has one byte.
EAcute == "é"

Width(c) == IF c = EAcute THEN 2 ELSE 1

\* String::len: the length in bytes.
RECURSIVE ByteLen(_)
ByteLen(s) == IF s = <<>> THEN 0 ELSE Width(Head(s)) + ByteLen(Tail(s))

\* str::is_char_boundary for a byte index.
IsCharBoundary(s, idx) == \E k \in 0..Len(s) : ByteLen(SubSeq(s, 1, k)) = idx

\* The number of characters before a byte index that is a boundary.
CharsBefore(s, idx) == CHOOSE k \in 0..Len(s) : ByteLen(SubSeq(s, 1, k)) = idx

\* String::insert and String::remove at a 0-based byte index that is a
\* character boundary; both panic at any other index.
InsertChar(input, pos, c) ==
    LET k == CharsBefore(input, pos)
    IN SubSeq(input, 1, k) \o <<c>> \o SubSeq(input, k + 1, Len(input))

RemoveChar(input, pos) ==
    LET k == CharsBefore(input, pos)
    IN SubSeq(input, 1, k) \o SubSeq(input, k + 2, Len(input))

\* The selection after Up and after Down.
SelectUp(selected) ==
    Some(IF selected = None THEN 0
         ELSE IF Unwrap(selected) = 0 THEN 0 ELSE Unwrap(selected) - 1)

SelectDown(selected, len, max_suggestions) ==
    Some(IF selected = None THEN 0
         ELSE IF Unwrap(selected) + 1 < Min(len, max_suggestions)
              THEN Unwrap(selected) + 1
              ELSE Unwrap(selected))

\* The history cursor after Up and after Down, for a non-empty history.
HistoryUp(history_index, len) ==
    Some(IF history_index = None THEN len - 1
         ELSE IF Unwrap(history_index) = 0 THEN 0 ELSE Unwrap(history_index) - 1)

HistoryDown(history_index, len) ==
    Some(IF history_index = None THEN 0
         ELSE IF Unwrap(history_index) + 1 < len
              THEN Unwrap(history_index) + 1
              ELSE Unwrap(history_index))

\* str::rfind(' '): the 0-based byte index of the last space, if any.
RFindSpace(input) ==
    IF \E i \in 1..Len(input) : input[i] = SP
    THEN LET i == CHOOSE k \in 1..Len(input) :
                      input[k] = SP /\ \A j \in (k + 1)..Len(input) : input[j] # SP
         IN Some(ByteLen(SubSeq(input, 1, i - 1)))
    ELSE None

\* A completion that always puts the suggestion after the buffer's text
\* before the last space.
TabReplaceAlwaysAfter(input, suggestion) ==
    LET found == RFindSpace(input)
        last_space == IF found = None THEN 0 ELSE Unwrap(found)
    IN SubSeq(input, 1, CharsBefore(input, last_space)) \o suggestion

\* The buffer after Tab completes it with the selected suggestion.
TabReplace(input, suggestion) ==
    LET parts == SplitWhitespace(Trim(input))
    IN IF parts = <<>> THEN suggestion
       ELSE IF Len(parts) > 1 /\ NoColon(parts[Len(parts)])
            THEN LET found == RFindSpace(input)
                     last_space == IF found = None THEN 0 ELSE Unwrap(found)
                 IN SubSeq(input, 1, CharsBefore(input, last_space)) \o suggestion
            ELSE suggestion

\* The record of the key event handled last: the number of key events
\* handled so far, the key, the prompt before it, whether execute_command
\* was called, the history it was called under and what it returned.
NoEvent ==
    [keys |-> 0, key |-> "none", before |-> InteractivePrompt(PromptConfig(<<>>, 0, 0)),
     executed |-> FALSE, history_at_execute |-> <<>>, result |-> None]

\* The terminal before prompt() touches it: the next terminal operation,
\* the two modes, how often each was released, whether a frame was drawn
\* after a release, and the operation that failed.
NoTerminal ==
    [step |-> "enable", raw_mode |-> FALSE, alternate_screen |-> FALSE,
     left |-> 0, disabled |-> 0, render_after_release |-> FALSE, failed |-> "none"]

(***************************************************************************)
(* Inventory (src/utils.rs): slots of items, each slot a stack of one item.*)
(***************************************************************************)
MaxSlots == 2
MaxQuantity == 3

Item(id, tags, stack_size) == [id |-> id, tags |-> tags, stack_size |-> stack_size]

Slot(item, count) == [item |-> item, count |-> count]

\* Inventory::new
Inventory(owner_money) == [owner_money |-> owner_money, slots |-> <<>>, max_slots |-> 32]

\* The items of the calls: stack_size is 1 or more.
ItemPool == {Item("a", <<>>, 1), Item("b", <<>>, 2)}

\* The first loop of add_item: each slot of the item with room takes what
\* fits; returned says the loop returned true.
RECURSIVE FillStacks(_, _, _, _)
FillStacks(slots, i, item, quantity) ==
    IF i > Len(slots) THEN [slots |-> slots, quantity |-> quantity, returned |-> FALSE]
    ELSE IF slots[i].item = item /\ slots[i].count < item.stack_size
         THEN LET space == item.stack_size - slots[i].count
                  add == Min(quantity, space)
                  filled == [slots EXCEPT ![i].count = slots[i].count + add]
              IN IF quantity - add = 0
                 THEN [slots |-> filled, quantity |-> 0, returned |-> TRUE]
                 ELSE FillStacks(filled, i + 1, item, quantity - add)
         ELSE FillStacks(slots, i + 1, item, quantity)

\* The second loop of add_item: new stacks while a slot is free.
RECURSIVE NewStacks(_, _, _, _)
NewStacks(slots, max_slots, item, quantity) ==
    IF quantity > 0
    THEN IF Len(slots) < max_slots
         THEN LET add == Min(quantity, item.stack_size)
              IN NewStacks(Append(slots, Slot(item, add)), max_slots, item, quantity - add)
         ELSE [slots |-> slots, result |-> FALSE]
    ELSE [slots |-> slots, result |-> TRUE]

\* add_item: the slots after the call and the value returned.
AddItem(inv, item, quantity) ==
    LET filled == FillStacks(inv.slots, 1, item, quantity)
    IN IF filled.returned THEN [slots |-> filled.slots, result |-> TRUE]
       ELSE NewStacks(filled.slots, inv.max_slots, item, filled.quantity)

\* The loop of remove_item: each slot of the item gives what is still to
\* be removed, up to its count.
RECURSIVE TakeFromSlots(_, _, _, _, _)
TakeFromSlots(slots, i, item, quantity, removed) ==
    IF i > Len(slots) THEN [slots |-> slots, removed |-> removed]
    ELSE IF slots[i].item = item
         THEN LET can_remove == Min(quantity - removed, slots[i].count)
              IN TakeFromSlots([slots EXCEPT ![i].count = slots[i].count - can_remove],
                               i + 1, item, quantity, removed + can_remove)
         ELSE TakeFromSlots(slots, i + 1, item, quantity, removed)

\* A remove_item that keeps the slots it emptied.
RemoveItemKeepingEmpty(inv, item, quantity) ==
    LET taken == TakeFromSlots(inv.slots, 1, item, quantity, 0)
    IN [slots |-> taken.slots, result |-> ~(taken.removed < quantity)]

\* remove_item: the slots after the call and the value returned.
RemoveItem(inv, item, quantity) ==
    LET taken == TakeFromSlots(inv.slots, 1, item, quantity, 0)
    IN [slots |-> SelectSeq(taken.slots, LAMBDA s : s.count > 0),
        result |-> ~(taken.removed < quantity)]

\* total_items_of
RECURSIVE TotalItemsOf(_, _)
TotalItemsOf(slots, item) ==
    IF slots = <<>> THEN 0
    ELSE (IF Head(slots).item = item THEN Head(slots).count ELSE 0)
         + TotalItemsOf(Tail(slots), item)

\* The record of the call made last on the inventory: the operation, its
\* arguments, the value returned and the slots before the call.
NoInventoryCall ==
    [op |-> "none", item |-> Item("a", <<>>, 1), quantity |-> 0, result |-> FALSE,
     before |-> <<>>]

(***************************************************************************)
(* The state machine: a registry under construction and the calls made on  *)
(* it.  last records the most recent call and what it returned.            *)
(***************************************************************************)
\* The paths get_suggestions passes to find_command, for the tokens of the
\* trimmed input.
SuggestionPaths(parts) ==
    IF Len(parts) <= 1 THEN <<>>
    ELSE <<Join(SubSeq(parts, 1, Len(parts) - 1))>>

\* A walk that starts from the prefix of no tokens.
ExecutePathsFromZero(parts, command_len) ==
    IF parts = <<>> THEN <<>>
    ELSE [k \in 1..Min(Len(parts), command_len + 1) + 1 |-> Join(SubSeq(parts, 1, k - 1))]

\* The paths execute_command passes to find_command: the prefixes of the
\* tokens, from the first token up to the first prefix that is not found
\* (command_len tokens resolve).
ExecutePaths(parts, command_len) ==
    IF parts = <<>> THEN <<>>
    ELSE [i \in 1..Min(Len(parts), command_len + 1) |-> Join(SubSeq(parts, 1, i))]

\* One of the calls of find_command panics.
PathsPanic(paths) == \E path \in {paths[k] : k \in DOMAIN paths} : FindCommandPanics(path)

NoCall ==
    [op |-> "none", panic |-> FALSE, found |-> None, suggestions |-> <<>>,
     hint |-> <<>>, result |-> None, command_len |-> 0]

Init ==
    /\ commands = <<>>
    /\ supplied = <<>>
    /\ call_input \in Inputs
    /\ last = NoCall
    /\ prompt = InteractivePrompt(PromptConfig(<<>>, DefaultMaxHistory, DefaultMaxSuggestions))
    /\ event = NoEvent
    /\ pc = "none"
    /\ terminal = NoTerminal
    /\ inventory = Inventory(None)
    /\ inventory_call = NoInventoryCall

Register(command) ==
    /\ Len(commands) + Len(FlattenPreOrder(command)) <= MaxCommands
    /\ commands' = RegisterCommand(commands, command)
    /\ supplied' = supplied \o FlattenPreOrder(command)
    /\ last' = [NoCall EXCEPT !.op = "register"]
    /\ UNCHANGED <<call_input, inventory, inventory_call, prompt, event, pc, terminal>>

Find ==
    /\ \E panics \in {FindCommandPanics(call_input)} :
         last' = [NoCall EXCEPT !.op = "find",
                                !.panic = panics,
                                !.found = IF panics THEN None
                                          ELSE FindCommand(commands, call_input)]
    /\ UNCHANGED <<commands, supplied, call_input, inventory, inventory_call, prompt, event, pc, terminal>>

Suggest ==
    /\ \E panics \in {PathsPanic(SuggestionPaths(SplitWhitespace(Trim(call_input))))} :
         \E r \in {IF panics THEN [suggestions |-> <<>>, hint |-> <<>>]
                    ELSE GetSuggestions(commands, call_input)} :
           last' = [NoCall EXCEPT !.op = "suggest",
                                  !.panic = panics,
                                  !.suggestions = r.suggestions,
                                  !.hint = r.hint]
    /\ UNCHANGED <<commands, supplied, call_input, inventory, inventory_call, prompt, event, pc, terminal>>

Execute ==
    /\ \E parts \in {SplitWhitespace(Trim(call_input))} :
         \E command_len \in {CommandLen(commands, parts)} :
           \E panics \in {PathsPanic(ExecutePaths(parts, command_len))} :
             last' = [NoCall EXCEPT !.op = "execute",
                                    !.panic = panics,
                                    !.result = IF panics \/ parts = <<>> THEN None
                                               ELSE ExecuteResolved(commands, parts,
                                                                    command_len),
                                    !.command_len = command_len]
    /\ UNCHANGED <<commands, supplied, call_input, inventory, inventory_call, prompt, event, pc, terminal>>

Next ==
    \/ \E command \in CommandPool : Register(command)
    \/ Find
    \/ Suggest
    \/ Execute

Spec == Init /\ [][Next]_vars

(***************************************************************************)
(* The state machine of a prompt session: prompt(config) constructs the    *)
(* InteractivePrompt over a finished registry and runs its loop, which     *)
(* handles one key event per step until running is false.                  *)
(***************************************************************************)
CmdExit == Command(ExitText, <<>>, <<>>, TRUE)

Registries ==
    { <<>>, RegisterCommand(RegisterCommand(<<>>, CmdExit), CmdGive) }

Histories == { <<>>, << <<"a">> >>, << <<"a", SP, "b">>, <<SP>> \o ExitText >> }

MaxHistoryChoices == {1, DefaultMaxHistory}

MaxSuggestionsChoices == {0, 1, DefaultMaxSuggestions}

Chars == {"a", "b", SP, EAcute}

InitPrompt ==
    /\ commands \in Registries
    /\ supplied = <<>>
    /\ call_input = <<>>
    /\ last = NoCall
    /\ \E history \in Histories, max_history \in MaxHistoryChoices,
          max_suggestions \in MaxSuggestionsChoices :
           prompt = InteractivePrompt(PromptConfig(history, max_history, max_suggestions))
    /\ event = NoEvent
    /\ pc = "new"
    /\ terminal = NoTerminal
    /\ inventory = Inventory(None)
    /\ inventory_call = NoInventoryCall

\* run, up to the loop: the suggestions of the empty buffer.
Run ==
    /\ pc = "new"
    /\ pc' = "loop"
    /\ prompt' = UpdateSuggestions(prompt, commands)
    /\ UNCHANGED <<commands, supplied, call_input, inventory, inventory_call, last, event>>

\* A handler that empties the registry it reads.
HandlesOrPanicsClearingRegistry(key, panics) ==
    /\ pc = "loop"
    /\ prompt.running
    /\ event.keys < MaxKeys
    /\ event' = [NoEvent EXCEPT !.keys = event.keys + 1, !.key = key, !.before = prompt]
    /\ pc' = IF panics THEN "panicked" ELSE pc
    /\ commands' = <<>>
    /\ UNCHANGED <<supplied, call_input, inventory, inventory_call, last>>

\* The loop reads a key event only while running; a panic in the handler
\* ends the session.
HandlesOrPanics(key, panics) ==
    /\ pc = "loop"
    /\ prompt.running
    /\ event.keys < MaxKeys
    /\ event' = [NoEvent EXCEPT !.keys = event.keys + 1, !.key = key, !.before = prompt]
    /\ pc' = IF panics THEN "panicked" ELSE pc
    /\ UNCHANGED <<commands, supplied, call_input, inventory, inventory_call, last>>

Handles(key) == HandlesOrPanics(key, FALSE)

\* An Enter that leaves the history cursor where it was.
KeyEnterKeepingHistoryIndex ==
    /\ pc = "loop"
    /\ prompt.running
    /\ event.keys < MaxKeys
    /\ IF IsExit(prompt.input)
       THEN /\ prompt' = [prompt EXCEPT !.running = FALSE]
            /\ event' = [NoEvent EXCEPT !.keys = event.keys + 1, !.key = "Enter",
                                        !.before = prompt]
       ELSE IF prompt.input # <<>>
            THEN LET history == PushHistory(prompt.config.history, prompt.input,
                                            prompt.config.max_history)
                     result == ExecuteCommand(commands, prompt.input)
                 IN /\ prompt' = UpdateSuggestions(
                                     [prompt EXCEPT !.config.history = history,
                                                    !.input = <<>>,
                                                    !.cursor_pos = 0],
                                     commands)
                    /\ event' = [NoEvent EXCEPT !.keys = event.keys + 1, !.key = "Enter",
                                                !.before = prompt,
                                                !.executed = TRUE,
                                                !.history_at_execute = history,
                                                !.result = result]
            ELSE /\ prompt' = prompt
                 /\ event' = [NoEvent EXCEPT !.keys = event.keys + 1, !.key = "Enter",
                                             !.before = prompt]
    /\ UNCHANGED <<commands, supplied, call_input, inventory, inventory_call, last, pc>>

KeyEnter ==
    /\ pc = "loop"
    /\ prompt.running
    /\ event.keys < MaxKeys
    /\ IF IsExit(prompt.input)
       THEN /\ prompt' = [prompt EXCEPT !.running = FALSE]
            /\ event' = [NoEvent EXCEPT !.keys = event.keys + 1, !.key = "Enter",
                                        !.before = prompt]
       ELSE IF prompt.input # <<>>
            THEN LET history == PushHistory(prompt.config.history, prompt.input,
                                            prompt.config.max_history)
                     result == ExecuteCommand(commands, prompt.input)
                 IN /\ prompt' = UpdateSuggestions(
                                     [prompt EXCEPT !.config.history = history,
                                                    !.input = <<>>,
                                                    !.cursor_pos = 0,
                                                    !.history_index = None],
                                     commands)
                    /\ event' = [NoEvent EXCEPT !.keys = event.keys + 1, !.key = "Enter",
                                                !.before = prompt,
                                                !.executed = TRUE,
                                                !.history_at_execute = history,
                                                !.result = result]
            ELSE /\ prompt' = prompt
                 /\ event' = [NoEvent EXCEPT !.keys = event.keys + 1, !.key = "Enter",
                                             !.before = prompt]
    /\ UNCHANGED <<commands, supplied, call_input, inventory, inventory_call, last, pc>>

KeyChar(c) ==
    LET panics == ~IsCharBoundary(prompt.input, prompt.cursor_pos)
    IN /\ HandlesOrPanics("Char", panics)
       /\ prompt' = IF panics THEN prompt
                    ELSE UpdateSuggestions(
                             [prompt EXCEPT !.input = InsertChar(prompt.input,
                                                                 prompt.cursor_pos, c),
                                            !.cursor_pos = prompt.cursor_pos + 1],
                             commands)

KeyBackspace ==
    LET panics == prompt.cursor_pos > 0
                  /\ ~IsCharBoundary(prompt.input, prompt.cursor_pos - 1)
    IN /\ HandlesOrPanics("Backspace", panics)
       /\ prompt' = IF prompt.cursor_pos > 0 /\ ~panics
                    THEN UpdateSuggestions(
                             [prompt EXCEPT !.input = RemoveChar(prompt.input,
                                                                 prompt.cursor_pos - 1),
                                            !.cursor_pos = prompt.cursor_pos - 1],
                             commands)
                    ELSE prompt

KeyLeft ==
    /\ Handles("Left")
    /\ prompt' = IF prompt.cursor_pos > 0
                 THEN [prompt EXCEPT !.cursor_pos = prompt.cursor_pos - 1]
                 ELSE prompt

KeyRight ==
    /\ Handles("Right")
    /\ prompt' = IF prompt.cursor_pos < ByteLen(prompt.input)
                 THEN [prompt EXCEPT !.cursor_pos = prompt.cursor_pos + 1]
                 ELSE prompt

\* A load that keeps the suggestions and the hint of the old buffer.
LoadHistoryStale(p, history_index, cmds) ==
    LET entry == p.config.history[Unwrap(history_index) + 1]
    IN [p EXCEPT !.history_index = history_index,
                 !.input = entry,
                 !.cursor_pos = ByteLen(entry)]

\* The buffer becomes the history entry under the cursor.
LoadHistory(p, history_index, cmds) ==
    LET entry == p.config.history[Unwrap(history_index) + 1]
    IN UpdateSuggestions([p EXCEPT !.history_index = history_index,
                                   !.input = entry,
                                   !.cursor_pos = ByteLen(entry)],
                         cmds)

\* An Up that browses the history before it looks at the suggestions.
KeyUpHistoryFirst ==
    /\ Handles("Up")
    /\ prompt' =
           IF prompt.config.history # <<>>
           THEN LoadHistory(prompt,
                            HistoryUp(prompt.history_index, Len(prompt.config.history)),
                            commands)
           ELSE IF prompt.suggestions # <<>>
                THEN [prompt EXCEPT !.selected_suggestion =
                                        SelectUp(prompt.selected_suggestion)]
                ELSE prompt

KeyUp ==
    /\ Handles("Up")
    /\ prompt' =
           IF prompt.suggestions # <<>>
           THEN [prompt EXCEPT !.selected_suggestion = SelectUp(prompt.selected_suggestion)]
           ELSE IF prompt.config.history # <<>>
                THEN LoadHistory(prompt,
                                 HistoryUp(prompt.history_index, Len(prompt.config.history)),
                                 commands)
                ELSE prompt

KeyDown ==
    /\ Handles("Down")
    /\ prompt' =
           IF prompt.suggestions # <<>>
           THEN [prompt EXCEPT !.selected_suggestion =
                                   SelectDown(prompt.selected_suggestion,
                                              Len(prompt.suggestions),
                                              prompt.config.max_suggestions)]
           ELSE IF prompt.config.history # <<>>
                THEN LoadHistory(prompt,
                                 HistoryDown(prompt.history_index,
                                             Len(prompt.config.history)),
                                 commands)
                ELSE prompt

KeyTab ==
    /\ Handles("Tab")
    /\ prompt' =
           IF /\ prompt.selected_suggestion # None
              /\ Unwrap(prompt.selected_suggestion) < Len(prompt.suggestions)
           THEN LET suggestion == prompt.suggestions[Unwrap(prompt.selected_suggestion) + 1]
                    input == TabReplace(prompt.input, suggestion)
                IN UpdateSuggestions([prompt EXCEPT !.input = input,
                                                    !.cursor_pos = ByteLen(input)],
                                     commands)
           ELSE prompt

\* The characters that arrive with the SHIFT modifier.
ShiftChars == {"A"}

\* Char(c) with a modifier other than NONE matches no arm but the last.
KeyCharShift(c) ==
    /\ Handles("CharShift")
    /\ prompt' = prompt

\* Any other key.
KeyOther ==
    /\ Handles("Other")
    /\ prompt' = prompt

\* The loop ends once running is false.
Leave ==
    /\ pc = "loop"
    /\ ~prompt.running
    /\ pc' = "done"
    /\ UNCHANGED <<commands, supplied, call_input, inventory, inventory_call, last, prompt, event>>

NextPrompt ==
    \/ Run /\ UNCHANGED terminal
    \/ KeyEnter /\ UNCHANGED terminal
    \/ \E c \in Chars : KeyChar(c) /\ UNCHANGED terminal
    \/ \E c \in ShiftChars : KeyCharShift(c) /\ UNCHANGED terminal
    \/ KeyBackspace /\ UNCHANGED terminal
    \/ KeyLeft /\ UNCHANGED terminal
    \/ KeyRight /\ UNCHANGED terminal
    \/ KeyUp /\ UNCHANGED terminal
    \/ KeyDown /\ UNCHANGED terminal
    \/ KeyTab /\ UNCHANGED terminal
    \/ KeyOther /\ UNCHANGED terminal
    \/ Leave /\ UNCHANGED terminal

SpecPrompt == InitPrompt /\ [][NextPrompt]_vars

(***************************************************************************)
(* The state machine of prompt(config) with its terminal operations: new   *)
(* enables raw mode and constructs the terminal, run enters the alternate  *)
(* screen, draws a frame and polls for an event in every iteration, and    *)
(* releases the terminal after the loop.  Every terminal operation can     *)
(* fail; the error is returned with ?.                                     *)
(***************************************************************************)
InitTerminal ==
    /\ commands \in Registries
    /\ supplied = <<>>
    /\ call_input = <<>>
    /\ last = NoCall
    /\ prompt = InteractivePrompt(PromptConfig(<<>>, DefaultMaxHistory, DefaultMaxSuggestions))
    /\ event = NoEvent
    /\ pc = "call"
    /\ terminal = NoTerminal
    /\ inventory = Inventory(None)
    /\ inventory_call = NoInventoryCall

Session == <<commands, supplied, call_input, inventory, inventory_call, last, prompt, event, pc>>

\* terminal::enable_raw_mode()?
EnableRawMode ==
    /\ terminal.step = "enable"
    /\ terminal' = [terminal EXCEPT !.step = "construct", !.raw_mode = TRUE]
    /\ UNCHANGED Session

\* Terminal::new(backend)? and terminal.clear()?, then the struct.
Construct ==
    /\ terminal.step = "construct"
    /\ terminal' = [terminal EXCEPT !.step = "enter"]
    /\ pc' = "new"
    /\ UNCHANGED <<commands, supplied, call_input, inventory, inventory_call, last, prompt, event>>

\* execute!(EnterAlternateScreen, ..)? and the first update_suggestions.
EnterAlternateScreen ==
    /\ terminal.step = "enter"
    /\ terminal' = [terminal EXCEPT !.step = "render", !.alternate_screen = TRUE]
    /\ Run

\* self.render()? at the head of an iteration.
Render ==
    /\ terminal.step = "render"
    /\ pc = "loop"
    /\ prompt.running
    /\ terminal' = [terminal EXCEPT !.step = "poll",
                                    !.render_after_release =
                                        terminal.render_after_release
                                        \/ terminal.left > 0 \/ terminal.disabled > 0]
    /\ UNCHANGED Session

\* event::poll times out, or event::read gives an event that is no key.
NoKey ==
    /\ terminal.step = "poll"
    /\ terminal' = [terminal EXCEPT !.step = "render"]
    /\ UNCHANGED Session

\* event::poll and event::read give a key event, which is handled.
Polled ==
    /\ terminal.step = "poll"
    /\ terminal' = [terminal EXCEPT !.step = "render"]

\* io::stdout().flush()? fails after Enter pushed the buffer and printed
\* the result of execute_command.
FlushFails ==
    /\ terminal.step = "poll"
    /\ pc = "loop"
    /\ prompt.running
    /\ event.keys < MaxKeys
    /\ ~IsExit(prompt.input)
    /\ prompt.input # <<>>
    /\ ExecuteCommand(commands, prompt.input) # None
    /\ LET history == PushHistory(prompt.config.history, prompt.input,
                                  prompt.config.max_history)
       IN /\ prompt' = [prompt EXCEPT !.config.history = history]
          /\ event' = [NoEvent EXCEPT !.keys = event.keys + 1, !.key = "Enter",
                                      !.before = prompt,
                                      !.executed = TRUE,
                                      !.history_at_execute = history,
                                      !.result = ExecuteCommand(commands, prompt.input)]
    /\ terminal' = [terminal EXCEPT !.step = "failed", !.failed = "flush"]
    /\ UNCHANGED <<commands, supplied, call_input, inventory, inventory_call, last, pc>>

\* A release that leaves the alternate screen on.
LeaveAlternateScreenSkipped ==
    /\ terminal.step = "render"
    /\ terminal' = [terminal EXCEPT !.step = "disable"]
    /\ Leave

\* execute!(LeaveAlternateScreen, ..)? after the loop.
LeaveAlternateScreen ==
    /\ terminal.step = "render"
    /\ terminal' = [terminal EXCEPT !.step = "disable",
                                    !.alternate_screen = FALSE,
                                    !.left = terminal.left + 1]
    /\ Leave

\* terminal::disable_raw_mode()?, then run returns Ok.
DisableRawMode ==
    /\ terminal.step = "disable"
    /\ terminal' = [terminal EXCEPT !.step = "returned",
                                    !.raw_mode = FALSE,
                                    !.disabled = terminal.disabled + 1]
    /\ UNCHANGED Session

\* The terminal operations of a step.
Operations(step, running) ==
    CASE step = "enable" -> {"enable_raw_mode"}
      [] step = "construct" -> {"Terminal::new", "clear"}
      [] step = "enter" -> {"EnterAlternateScreen"}
      [] step = "render" -> IF running THEN {"render"} ELSE {"LeaveAlternateScreen"}
      [] step = "poll" -> {"poll", "read"}
      [] step = "disable" -> {"disable_raw_mode"}
      [] OTHER -> {}

\* A terminal operation fails: its ? returns the error from new or run,
\* and prompt returns it.
Fails(op) ==
    /\ pc # "panicked"
    /\ op \in Operations(terminal.step, prompt.running)
    /\ terminal' = [terminal EXCEPT !.step = "failed", !.failed = op]
    /\ UNCHANGED Session

TerminalOperations ==
    {"enable_raw_mode", "Terminal::new", "clear", "EnterAlternateScreen", "render",
     "poll", "read", "LeaveAlternateScreen", "disable_raw_mode"}

NextTerminal ==
    \/ EnableRawMode
    \/ Construct
    \/ EnterAlternateScreen
    \/ Render
    \/ NoKey
    \/ Polled /\ KeyEnter
    \/ \E c \in Chars : Polled /\ KeyChar(c)
    \/ \E c \in ShiftChars : Polled /\ KeyCharShift(c)
    \/ Polled /\ KeyBackspace
    \/ Polled /\ KeyLeft
    \/ Polled /\ KeyRight
    \/ Polled /\ KeyUp
    \/ Polled /\ KeyDown
    \/ Polled /\ KeyTab
    \/ Polled /\ KeyOther
    \/ FlushFails
    \/ LeaveAlternateScreen
    \/ DisableRawMode
    \/ \E op \in TerminalOperations : Fails(op)

SpecTerminal == InitTerminal /\ [][NextTerminal]_vars

(***************************************************************************)
(* Properties.                                                             *)
(***************************************************************************)
CallParts == SplitWhitespace(Trim(call_input))

IsPrefixOf(p, s) == Len(p) <= Len(s) /\ \A i \in 1..Len(p) : s[i] = p[i]

RequiredBeforeOptional(args) ==
    \A i, j \in 1..Len(args) : (i < j /\ args[i].optional) => args[j].optional

\* C1: every command find_command returns has all its required arguments
\* before all its optional ones, and each of the two groups is in the order
\* the caller supplied.
C1_FoundArgsRequiredFirst ==
    (last.op = "find" /\ IsSome(last.found)) =>
        LET stored == Unwrap(last.found).args
            given == Unwrap(FindCommand(supplied, call_input)).args
        IN /\ RequiredBeforeOptional(stored)
           /\ SelectSeq(stored, IsRequired) = SelectSeq(given, IsRequired)
           /\ SelectSeq(stored, IsOptional) = SelectSeq(given, IsOptional)

\* The link i of a path: the first token names a top-level command, a later
\* token names a subcommand of the command its predecessors resolve to.
LinkHolds(parts, i) ==
    IF i = 1
    THEN \E k \in 1..Len(commands) : commands[k].name = parts[1]
    ELSE LET before == FindCommand(commands, Join(SubSeq(parts, 1, i - 1)))
         IN /\ IsSome(before)
            /\ \E k \in 1..Len(Unwrap(before).subcommands) :
                   Unwrap(before).subcommands[k].name = parts[i]

\* C2: find_command on a path of one or more tokens succeeds iff every link
\* of the path holds; with a missing link the result is absence, and a
\* command that is found carries the name of the last token.
C2_FindIffEveryLink ==
    (last.op = "find" /\ ~last.panic) =>
        \A parts \in {SplitWhitespace(call_input)} :
            \A all_links \in {\A i \in 1..Len(parts) : LinkHolds(parts, i)} :
                /\ IsSome(last.found) <=> all_links
                /\ ~all_links => last.found = None
                /\ IsSome(last.found) => Unwrap(last.found).name = parts[Len(parts)]

C2_Witness ==
    /\ last.op = "find"
    /\ IsSome(last.found)
    /\ Len(SplitWhitespace(call_input)) = 3

\* The longest token prefix that find_command resolves, found by trying the
\* whole token list first and dropping the last token until find succeeds.
RECURSIVE DropLastUntilFound(_, _)
DropLastUntilFound(parts, n) ==
    IF n = 0 THEN 0
    ELSE IF IsSome(FindCommand(commands, Join(SubSeq(parts, 1, n)))) THEN n
    ELSE DropLastUntilFound(parts, n - 1)

\* C3: the left-to-right walk of execute_command stops at the longest token
\* prefix that resolves, so it picks the command and the argument tail that
\* dropping tokens from the end picks.
C3_WalkIsLongestPrefix ==
    last.op = "execute" =>
        \A parts \in {CallParts} :
            /\ last.command_len = DropLastUntilFound(parts, Len(parts))
            /\ \A n \in (last.command_len + 1)..Len(parts) :
                   FindCommand(commands, Join(SubSeq(parts, 1, n))) = None

C3_Witness ==
    /\ last.op = "execute"
    /\ last.command_len = 2
    /\ Len(CallParts) = 3

\* The command execute_command resolved and the tokens after its path.
ResolvedCommand == Unwrap(FindCommand(commands, Join(SubSeq(CallParts, 1, last.command_len))))
ArgTail == SubSeq(CallParts, last.command_len + 1, Len(CallParts))

\* The positions of the positional and of the named tokens of a tail.
PositionalAt(tail) == {k \in 1..Len(tail) : \A j \in 1..Len(tail[k]) : tail[k][j] # COLON}
NamedAt(tail, name) ==
    {k \in 1..Len(tail) : IsPrefixOf(name \o <<COLON>>, tail[k])
                          /\ \A j \in 1..Len(name) : name[j] # COLON}

HasPositional(tail, i) == i <= Cardinality(PositionalAt(tail))
NthPositional(tail, i) ==
    tail[CHOOSE k \in PositionalAt(tail) :
             Cardinality({j \in PositionalAt(tail) : j <= k}) = i]
NamedValue(tail, name) ==
    LET k == CHOOSE m \in NamedAt(tail, name) : \A j \in NamedAt(tail, name) : j <= m
    IN SubSeq(tail[k], Len(name) + 2, Len(tail[k]))

\* The value the binding rule gives the argument i of a command: Some value
\* or None.
ExpectedValue(command, tail, i) ==
    LET arg == command.args[i]
    IN IF HasPositional(tail, i) THEN Some(NthPositional(tail, i))
       ELSE IF NamedAt(tail, arg.name) # {} THEN Some(NamedValue(tail, arg.name))
       ELSE arg.default

\* C4: the map the handler gets binds the argument i to the i-th positional
\* token if there is one, else to the value of the named token for it, else
\* to its default; a positional value wins over a named one.
C4_BindingOrder ==
    (last.op = "execute" /\ IsSome(last.result) /\ Unwrap(last.result).kind = "handled") =>
        \A args \in {Unwrap(last.result).args}, command \in {ResolvedCommand},
           tail \in {ArgTail} :
            \A i \in 1..Len(command.args) :
                \A expected \in {ExpectedValue(command, tail, i)} :
                    IF IsSome(expected)
                    THEN /\ command.args[i].name \in DOMAIN args
                         /\ args[command.args[i].name] = Unwrap(expected)
                    ELSE command.args[i].name \notin DOMAIN args

C4_Witness ==
    /\ last.op = "execute"
    /\ IsSome(last.result)
    /\ Unwrap(last.result).kind = "handled"
    /\ \E i \in 1..Len(ResolvedCommand.args) :
           /\ HasPositional(ArgTail, i)
           /\ NamedAt(ArgTail, ResolvedCommand.args[i].name) # {}
           /\ NamedValue(ArgTail, ResolvedCommand.args[i].name) # NthPositional(ArgTail, i)

\* The required arguments of the resolved command that get no value.
UnboundOf(command, tail) ==
    {i \in 1..Len(command.args) :
         /\ ~command.args[i].optional
         /\ ExpectedValue(command, tail, i) = None}

Unbound == UnboundOf(ResolvedCommand, ArgTail)

\* C5: when a required argument of the resolved command gets no value, the
\* result is the missing-argument message for the first such argument and
\* the handler is not invoked.
C5_MissingRequired ==
    (last.op = "execute" /\ last.command_len > 0) =>
        \A unbound \in {Unbound} :
            unbound # {} =>
                \A first \in {i \in unbound : \A j \in unbound : i <= j} :
                    /\ IsSome(last.result)
                    /\ Unwrap(last.result).kind = "missing"
                    /\ Unwrap(last.result).arg = ResolvedCommand.args[first].name

C5_Witness ==
    /\ last.op = "execute"
    /\ last.command_len > 0
    /\ Unbound # {}
    /\ ResolvedCommand.handler
    /\ \E i \in Unbound : i > 1

\* A command with a required argument followed by an optional argument
\* with a default.
RequiredThenDefault(command) ==
    /\ Len(command.args) = 2
    /\ ~command.args[1].optional /\ command.args[1].default = None
    /\ command.args[2].optional /\ IsSome(command.args[2].default)

SubcommandNames(command) ==
    {command.subcommands[k].name : k \in 1..Len(command.subcommands)}

\* A value that can be written as a positional token.
IsValue(v) == v # <<>> /\ \A j \in 1..Len(v) : v[j] # COLON /\ v[j] # SP

\* The Option<String> of a handler call with the two arguments bound.
Handled(command, v1, v2) ==
    IF command.handler
    THEN Some([kind |-> "handled", arg |-> <<>>,
               args |-> [n \in {command.args[1].name, command.args[2].name} |->
                            IF n = command.args[1].name THEN v1 ELSE v2]])
    ELSE None

\* The three cases for the input whose first k tokens are the path of the
\* command and whose other tokens are the arguments; with any_value FALSE
\* the value given for the required argument is not a subcommand's name.
GiveCasesFor(parts, found, k, any_value) ==
    LET command == Unwrap(found)
        tail == SubSeq(parts, k + 1, Len(parts))
        required == command.args[1]
        optional == command.args[2]
        ok(v) == any_value \/ v \notin SubcommandNames(command)
    IN (IsSome(found) /\ RequiredThenDefault(command)) =>
        /\ (Len(tail) = 1 /\ IsValue(tail[1]) /\ ok(tail[1])) =>
               last.result = Handled(command, tail[1], Unwrap(optional.default))
        /\ tail = <<>> =>
               last.result = Some([kind |-> "missing", arg |-> required.name,
                                   args |-> [n \in {} |-> <<>>]])
        /\ (/\ Len(tail) = 2
            /\ \E m \in 1..2 : /\ NamedAt(tail, required.name) = {m}
                               /\ NamedAt(tail, optional.name) = {3 - m}
            /\ IsValue(NamedValue(tail, required.name))
            /\ IsValue(NamedValue(tail, optional.name))
            /\ ok(NamedValue(tail, required.name))) =>
               LET v1 == NamedValue(tail, required.name)
                   v2 == NamedValue(tail, optional.name)
                   positional == Join(SubSeq(parts, 1, k) \o <<v1, v2>>)
               IN /\ last.result = ExecuteCommand(commands, positional)
                  /\ last.result = Handled(command, v1, v2)

GiveCasesOf(parts, k, any_value) ==
    GiveCasesFor(parts, FindCommand(commands, Join(SubSeq(parts, 1, k))), k, any_value)

GiveCases(k, any_value) == GiveCasesOf(CallParts, k, any_value)

C7_EmptyInputListsAll ==
    (last.op = "suggest" /\ \A i \in 1..Len(call_input) : call_input[i] = SP) =>
        /\ Len(last.suggestions) = Len(commands)
        /\ \A i \in 1..Len(commands) : last.suggestions[i] = commands[i].name
        /\ last.hint = <<>>

C7_Witness ==
    /\ last.op = "suggest"
    /\ Len(call_input) > 0
    /\ \A i \in 1..Len(call_input) : call_input[i] = SP
    /\ Len(commands) >= 2
    /\ \E i, j \in 1..Len(commands) : commands[i].name # commands[j].name

\* C8: get_suggestions on an input of one token returns the names of the
\* top-level commands whose name starts with the token, in registration
\* order, and an empty hint.
C8_OneTokenPrefixMatches ==
    (last.op = "suggest" /\ Len(CallParts) = 1) =>
        LET matching == SelectSeq(commands, LAMBDA c : IsPrefixOf(CallParts[1], c.name))
        IN /\ Len(last.suggestions) = Len(matching)
           /\ \A i \in 1..Len(matching) : last.suggestions[i] = matching[i].name
           /\ last.hint = <<>>

C8_Witness ==
    /\ last.op = "suggest"
    /\ Len(CallParts) = 1
    /\ Len(last.suggestions) = 2
    /\ Len(commands) = 3
    /\ last.suggestions[1] # CallParts[1]

\* A path resolves when its first token names a top-level command and each
\* later token names a subcommand of the command before it, the first
\* command of that name each time.
RECURSIVE ChainResolves(_, _)
ChainResolves(cmds, tokens) ==
    IF tokens = <<>> THEN TRUE
    ELSE LET named == {k \in 1..Len(cmds) : cmds[k].name = Head(tokens)}
         IN /\ named # {}
            /\ ChainResolves(cmds[CHOOSE k \in named : \A j \in named : k <= j].subcommands,
                             Tail(tokens))

\* C9: get_suggestions on two or more tokens whose command path (all but
\* the last token) does not resolve returns no suggestion and an empty hint.
C9_UnresolvedPathIsEmpty ==
    (/\ last.op = "suggest"
     /\ Len(CallParts) >= 2
     /\ ~ChainResolves(commands, SubSeq(CallParts, 1, Len(CallParts) - 1))) =>
        /\ last.suggestions = <<>>
        /\ last.hint = <<>>

C9_Witness ==
    /\ last.op = "suggest"
    /\ Len(CallParts) = 3
    /\ ChainResolves(commands, SubSeq(CallParts, 1, 1))
    /\ ~ChainResolves(commands, SubSeq(CallParts, 1, 2))
    /\ last.suggestions = <<>>

\* C10: with two or more tokens and a resolving command path, the hint
\* describes the argument whose index is the number of tokens without ':'
\* after the command path and before the last token.
C10_HintIndexSkipsPathAndLast ==
    (/\ last.op = "suggest"
     /\ Len(CallParts) >= 2
     /\ ChainResolves(commands, SubSeq(CallParts, 1, Len(CallParts) - 1))) =>
        LET path_len == Len(CallParts) - 1
            command == Unwrap(FindCommand(commands, Join(SubSeq(CallParts, 1, path_len))))
            between == SubSeq(CallParts, path_len + 1, Len(CallParts) - 1)
            index == Cardinality(PositionalAt(between))
        IN last.hint = IF index < Len(command.args)
                       THEN ArgHint(command.args[index + 1])
                       ELSE <<>>

\* The command that the path of all tokens but the last resolves to.
PathCommand ==
    Unwrap(FindCommand(commands, Join(SubSeq(CallParts, 1, Len(CallParts) - 1))))

LastToken == CallParts[Len(CallParts)]

HasColon(t) == \E j \in 1..Len(t) : t[j] = COLON

\* The text after the first ':' of a token.
AfterColon(t) ==
    LET i == CHOOSE k \in 1..Len(t) : t[k] = COLON /\ \A j \in 1..(k - 1) : t[j] # COLON
    IN SubSeq(t, i + 1, Len(t))

SuggestsForPath ==
    /\ last.op = "suggest"
    /\ Len(CallParts) >= 2
    /\ ChainResolves(commands, SubSeq(CallParts, 1, Len(CallParts) - 1))

\* C11: for a last token name:partial, an int argument gets the members of
\* the pool 0, 1, 10, 100 that start with partial, another argument with a
\* default gets the default if it starts with partial, and there is no
\* other suggestion.
C11_ValuesMatchPartial ==
    (SuggestsForPath /\ HasColon(LastToken)
     /\ ArgIndex(CallParts) < Len(PathCommand.args)) =>
        LET arg == PathCommand.args[ArgIndex(CallParts) + 1]
            partial == AfterColon(LastToken)
        IN last.suggestions =
               IF arg.arg_type = TypeInt
               THEN SelectSeq(IntPool, LAMBDA v : IsPrefixOf(partial, v))
               ELSE IF IsSome(arg.default) /\ IsPrefixOf(partial, Unwrap(arg.default))
                    THEN <<Unwrap(arg.default)>>
                    ELSE <<>>

\* The hint as '<' name ':' type, the range, '>' and the marker; the range
\* is written after lead for an argument that has_range.
HintText(arg, lead, has_range, marker) ==
    <<"<">> \o arg.name \o <<COLON>> \o arg.arg_type
    \o (IF has_range
        THEN lead \o <<"{">> \o IntToString(arg.range[1][1]) \o <<".", ".">>
             \o IntToString(arg.range[1][2]) \o <<"}">>
        ELSE <<>>)
    \o <<">">> \o marker

C13_SubcommandsThenArgument ==
    (SuggestsForPath /\ ~HasColon(LastToken)) =>
        LET path == SubSeq(CallParts, 1, Len(CallParts) - 1)
            between == SubSeq(CallParts, Len(path) + 1, Len(CallParts) - 1)
            index == Cardinality(PositionalAt(between))
            matching == SelectSeq(PathCommand.subcommands,
                                  LAMBDA c : IsPrefixOf(LastToken, c.name))
            subs == [i \in 1..Len(matching) |-> Join(path) \o <<SP>> \o matching[i].name]
        IN IF index < Len(PathCommand.args)
           THEN /\ last.suggestions =
                       Append(subs, Join(path) \o <<SP>>
                                    \o PathCommand.args[index + 1].name \o <<COLON>>)
                /\ last.hint = ArgHint(PathCommand.args[index + 1])
           ELSE /\ last.suggestions = subs
                /\ last.hint = <<>>

(***************************************************************************)
(* Properties of the prompt session.                                       *)
(***************************************************************************)
Before == event.before

\* The suggestion that was selected when the key was pressed.
SelectedBefore == Before.suggestions[Before.selected_suggestion[1] + 1]

TabCompleted ==
    /\ event.key = "Tab"
    /\ Before.selected_suggestion # None
    /\ Before.selected_suggestion[1] < Len(Before.suggestions)

PartsBefore == SplitWhitespace(Trim(Before.input))

\* Suggestions and hint are those get_suggestions gives for the buffer,
\* with the first suggestion selected if there is one.
Recomputed ==
    /\ prompt.suggestions = GetSuggestions(commands, prompt.input).suggestions
    /\ prompt.hint = GetSuggestions(commands, prompt.input).hint
    /\ prompt.selected_suggestion = IF prompt.suggestions = <<>> THEN <<>> ELSE <<0>>

\* The history after pushing entry under the cap.
CappedPush(history, entry, max_history) ==
    IF Len(history) + 1 > max_history
    THEN SubSeq(history, 2, Len(history)) \o <<entry>>
    ELSE history \o <<entry>>

\* C14: whatever max_history and the initial history are, the history
\* holds at most max_history entries after an Enter has pushed the buffer,
\* the oldest entry being evicted and the order of the others kept when the
\* push goes over the cap.
C14_HistoryWithinCap ==
    event.executed =>
        /\ Len(prompt.config.history) <= prompt.config.max_history
        /\ prompt.config.history =
               CappedPush(Before.config.history, Before.input, Before.config.max_history)

\* C15: Tab with a selected suggestion on an empty or single-token buffer
\* makes the buffer the selected suggestion, puts the cursor at its end and
\* recomputes suggestions and hint.
C15_TabReplacesSingleToken ==
    (TabCompleted /\ Len(PartsBefore) <= 1) =>
        /\ prompt.input = SelectedBefore
        /\ prompt.cursor_pos = Len(prompt.input)
        /\ Recomputed

C15_Witness ==
    /\ TabCompleted
    /\ Len(PartsBefore) = 1
    /\ Before.input # PartsBefore[1]
    /\ prompt.input # Before.input

\* The 1-based position of the last space of a buffer that has one.
LastSpace(input) ==
    CHOOSE i \in 1..Len(input) :
        input[i] = SP /\ \A j \in (i + 1)..Len(input) : input[j] # SP

\* C16: Tab with a selected suggestion on a buffer of several tokens whose
\* last token has no ':' keeps the buffer up to and including its last
\* space and puts the selected suggestion after it.
C16_TabKeepsThroughLastSpace ==
    (TabCompleted /\ Len(PartsBefore) > 1 /\ ~HasColon(PartsBefore[Len(PartsBefore)])) =>
        prompt.input = SubSeq(Before.input, 1, LastSpace(Before.input)) \o SelectedBefore

\* C17: a selected index is below min(number of suggestions,
\* max_suggestions), and Up and Down move it by at most one.
C17_SelectionWithinPanel ==
    /\ prompt.selected_suggestion # None =>
           /\ prompt.selected_suggestion[1] >= 0
           /\ prompt.selected_suggestion[1]
                  <= Min(Len(prompt.suggestions), prompt.config.max_suggestions) - 1
    /\ (event.key \in {"Up", "Down"} /\ Before.suggestions # <<>>) =>
           /\ prompt.suggestions = Before.suggestions
           /\ prompt.selected_suggestion # None
           /\ Before.selected_suggestion # None =>
                  LET i == Before.selected_suggestion[1]
                      j == prompt.selected_suggestion[1]
                  IN IF event.key = "Up" THEN j \in {i, i - 1} ELSE j \in {i, i + 1}

\* C18: with no suggestion and a non-empty history, Up moves the history
\* cursor one entry towards the oldest and Down one entry towards the
\* newest, stopping at either end; a cursor of None stands behind the newest
\* entry.  The buffer is the entry under the cursor, the cursor position its
\* end, and suggestions and hint are recomputed.
C18_HistoryBrowsingClamped ==
    (event.key \in {"Up", "Down"} /\ Before.suggestions = <<>>
     /\ Before.config.history # <<>>) =>
        LET len == Len(Before.config.history)
            pos == IF Before.history_index = None THEN len ELSE Before.history_index[1]
            new == IF event.key = "Up"
                   THEN (IF pos = 0 THEN 0 ELSE pos - 1)
                   ELSE (IF pos + 1 > len - 1 THEN len - 1 ELSE pos + 1)
        IN /\ prompt.history_index = <<new>>
           /\ prompt.input = Before.config.history[new + 1]
           /\ prompt.cursor_pos = Len(prompt.input)
           /\ Recomputed

EnteredCommand ==
    /\ event.key = "Enter"
    /\ Before.input # <<>>
    /\ Trim(Before.input) # <<"e", "x", "i", "t">>

EnteredExit ==
    /\ event.key = "Enter"
    /\ Trim(Before.input) = <<"e", "x", "i", "t">>

\* C20: Enter on a buffer that trims to exit stops the loop without a push
\* on the history and without a call of execute_command; the loop is
\* stopped by that key only, whether it ends by its condition or by a
\* panic of the handler, and no key is handled once it is stopped.
C20_OnlyExitStopsLoop ==
    /\ EnteredExit =>
           /\ ~prompt.running
           /\ ~event.executed
           /\ prompt.config.history = Before.config.history
    /\ (~prompt.running \/ pc \in {"done", "panicked"}) =>
           /\ EnteredExit
           /\ Before.running
           /\ ~prompt.running

(***************************************************************************)
(* Properties of registration and of the binding of arguments.             *)
(***************************************************************************)
\* C25: the registry never holds two top-level entries with the same name.
C25_NoDuplicateTopLevelNames ==
    \A i, j \in 1..Len(commands) : commands[i].name = commands[j].name => i = j

\* The input gives the argument i of the resolved command a positional or
\* a named value.
Supplied(i) ==
    \/ HasPositional(ArgTail, i)
    \/ NamedAt(ArgTail, ResolvedCommand.args[i].name) # {}

\* The required arguments the input gives no value.
RequiredUnsupplied ==
    {i \in 1..Len(ResolvedCommand.args) :
         ~ResolvedCommand.args[i].optional /\ ~Supplied(i)}

\* C26: a default declared for a required argument is ignored: when the
\* input gives a required argument no value, the result is the
\* missing-argument message for the first such argument.
C26_RequiredDefaultIgnored ==
    (last.op = "execute" /\ last.command_len > 0 /\ RequiredUnsupplied # {}) =>
        LET first == CHOOSE i \in RequiredUnsupplied : \A j \in RequiredUnsupplied : i <= j
        IN /\ last.result # None
           /\ last.result[1].kind = "missing"
           /\ last.result[1].arg = ResolvedCommand.args[first].name

\* The optional arguments without default the input gives no value.
OptionalUnvalued ==
    {i \in 1..Len(ResolvedCommand.args) :
         /\ ResolvedCommand.args[i].optional
         /\ ResolvedCommand.args[i].default = None
         /\ ~Supplied(i)}

\* C27: an optional argument without default and without value does not
\* make execute_command fail: a failure names a required argument without
\* value, and otherwise the handler gets a mapping without an entry for it.
C27_OptionalWithoutValueSkipped ==
    (last.op = "execute" /\ last.command_len > 0 /\ OptionalUnvalued # {}) =>
        IF Unbound # {}
        THEN /\ last.result # None
             /\ last.result[1].kind = "missing"
             /\ \E i \in Unbound : last.result[1].arg = ResolvedCommand.args[i].name
        ELSE ResolvedCommand.handler =>
                 /\ last.result # None
                 /\ last.result[1].kind = "handled"
                 /\ \A i \in OptionalUnvalued :
                        ResolvedCommand.args[i].name \notin DOMAIN last.result[1].args

C27_Witness ==
    /\ last.op = "execute"
    /\ last.command_len > 0
    /\ last.result # None
    /\ last.result[1].kind = "handled"
    /\ \E i \in OptionalUnvalued :
           \E j \in (i + 1)..Len(ResolvedCommand.args) :
               ResolvedCommand.args[j].name \in DOMAIN last.result[1].args

\* C28: an input that resolves to a command without handler, and an input
\* whose first token names no top-level command, give no result.
C28_NoHandlerNoResult ==
    (/\ last.op = "execute"
     /\ CallParts # <<>>
     /\ \/ last.command_len > 0 /\ ~ResolvedCommand.handler
        \/ \A i \in 1..Len(commands) : commands[i].name # CallParts[1]) =>
        last.result = None

(***************************************************************************)
(* Properties of the session's frame, results, cursor and suggestions.     *)
(***************************************************************************)
\* C23: no call other than register_command and no key event handled by
\* the loop changes the registry.
C23_RegistryReadOnly ==
    [][last'.op # "register" => commands' = commands]_vars

C23_Witness ==
    /\ event.executed
    /\ event.result # None
    /\ commands # <<>>
    /\ Before.suggestions # <<>>

\* The number of leading tokens of the entered buffer that resolve to a
\* command.
EnteredCommandLen == CommandLen(commands, PartsBefore)

\* C24: Enter on an input whose command path resolves to no command, or
\* whose command lacks a required argument, yields a result string, and the
\* loop keeps running.
C24_InputErrorsGiveResult ==
    (/\ EnteredCommand
     /\ PartsBefore # <<>>
     /\ \/ EnteredCommandLen = 0
        \/ ExecuteCommand(commands, Before.input) # None
           /\ ExecuteCommand(commands, Before.input)[1].kind = "missing") =>
        /\ event.result # None
        /\ prompt.running
        /\ pc = "loop"

\* C29: the cursor position is between 0 and the number of characters of
\* the buffer, and no insertion or deletion is attempted off a character
\* boundary.
C29_CursorCountsCharacters ==
    /\ prompt.cursor_pos >= 0
    /\ prompt.cursor_pos <= Len(prompt.input)
    /\ pc # "panicked"

\* C30: in every state the loop renders, the suggestions and the hint are
\* those of get_suggestions for the buffer.
C30_SuggestionsFollowBuffer ==
    pc = "loop" =>
        /\ prompt.suggestions = GetSuggestions(commands, prompt.input).suggestions
        /\ prompt.hint = GetSuggestions(commands, prompt.input).hint

C30_Witness ==
    /\ pc = "loop"
    /\ event.key \in {"Up", "Down"}
    /\ prompt.input # Before.input
    /\ prompt.suggestions # Before.suggestions
    /\ prompt.hint # <<>>

(***************************************************************************)
(* Properties of the terminal.                                             *)
(***************************************************************************)
\* C21: when run returns after the exit input without a failed terminal
\* operation, the alternate screen was left and raw mode was disabled, each
\* once, and no frame was drawn after either.
C21_ReleasedOnExit ==
    /\ terminal.left <= 1
    /\ terminal.disabled <= 1
    /\ ~terminal.render_after_release
    /\ terminal.step = "returned" =>
           /\ EnteredExit
           /\ ~terminal.alternate_screen
           /\ ~terminal.raw_mode
           /\ terminal.left = 1
           /\ terminal.disabled = 1

C21_Witness ==
    /\ terminal.step = "returned"
    /\ pc = "done"
    /\ event.keys > 1

\* C22: when a terminal operation fails after raw mode was enabled, the
\* prompt function returns with raw mode disabled and the alternate screen
\* left.
C22_ReleasedOnError ==
    terminal.failed \in {"Terminal::new", "clear", "EnterAlternateScreen", "render",
                         "poll", "read", "flush"} =>
        /\ terminal.step = "failed"
        /\ ~terminal.raw_mode
        /\ ~terminal.alternate_screen

(***************************************************************************)
(* The state machine of an inventory: add_item and remove_item calls on an *)
(* inventory whose max_slots field is set to 0..MaxSlots.                  *)
(***************************************************************************)
InitInventory ==
    /\ commands = <<>>
    /\ supplied = <<>>
    /\ call_input = <<>>
    /\ last = NoCall
    /\ prompt = InteractivePrompt(PromptConfig(<<>>, DefaultMaxHistory, DefaultMaxSuggestions))
    /\ event = NoEvent
    /\ pc = "none"
    /\ terminal = NoTerminal
    /\ \E max_slots \in 0..MaxSlots :
           inventory = [Inventory(None) EXCEPT !.max_slots = max_slots]
    /\ inventory_call = NoInventoryCall

CallAddItem(item, quantity) ==
    /\ LET r == AddItem(inventory, item, quantity)
       IN /\ inventory' = [inventory EXCEPT !.slots = r.slots]
          /\ inventory_call' = [op |-> "add_item", item |-> item, quantity |-> quantity,
                                result |-> r.result, before |-> inventory.slots]
    /\ UNCHANGED <<commands, supplied, call_input, last, prompt, event, pc, terminal>>

CallRemoveItem(item, quantity) ==
    /\ LET r == RemoveItem(inventory, item, quantity)
       IN /\ inventory' = [inventory EXCEPT !.slots = r.slots]
          /\ inventory_call' = [op |-> "remove_item", item |-> item, quantity |-> quantity,
                                result |-> r.result, before |-> inventory.slots]
    /\ UNCHANGED <<commands, supplied, call_input, last, prompt, event, pc, terminal>>

NextInventory ==
    \/ \E item \in ItemPool, quantity \in 0..MaxQuantity : CallAddItem(item, quantity)
    \/ \E item \in ItemPool, quantity \in 0..MaxQuantity : CallRemoveItem(item, quantity)

SpecInventory == InitInventory /\ [][NextInventory]_vars

(***************************************************************************)
(* Properties of the editing keys.                                         *)
(***************************************************************************)
\* The buffer before the key with c put in at character index i.
InsertedAt(c, i) ==
    SubSeq(Before.input, 1, i) \o <<c>> \o SubSeq(Before.input, i + 1, Len(Before.input))

\* The buffer before the key without its character of index i (from 1).
RemovedAt(i) ==
    SubSeq(Before.input, 1, i - 1) \o SubSeq(Before.input, i + 1, Len(Before.input))

\* Everything of the session but the buffer and the cursor is as before the key.
RestAsBefore ==
    /\ prompt.suggestions = Before.suggestions
    /\ prompt.selected_suggestion = Before.selected_suggestion
    /\ prompt.hint = Before.hint
    /\ prompt.config = Before.config
    /\ prompt.history_index = Before.history_index
    /\ prompt.running = Before.running

\* C31: a character key, with or without a modifier, puts its character
\* in at the cursor index, keeps the characters before and after it in
\* order, advances the cursor by one and recomputes suggestions and hint.
C31_EveryCharacterInserted ==
    event.key \in {"Char", "CharShift"} =>
        /\ pc = "loop"
        /\ Before.cursor_pos <= Len(Before.input)
        /\ \E c \in (IF event.key = "Char" THEN Chars ELSE ShiftChars) :
               prompt.input = InsertedAt(c, Before.cursor_pos)
        /\ prompt.cursor_pos = Before.cursor_pos + 1
        /\ Recomputed

\* C32: Backspace with the cursor past 0 removes the character before the
\* cursor, moves the cursor back by one and recomputes suggestions and
\* hint; with the cursor at 0 it changes nothing of the session.
C32_BackspaceRemovesBeforeCursor ==
    event.key = "Backspace" =>
        /\ pc = "loop"
        /\ IF Before.cursor_pos > 0
           THEN /\ Before.cursor_pos <= Len(Before.input)
                /\ prompt.input = RemovedAt(Before.cursor_pos)
                /\ prompt.cursor_pos = Before.cursor_pos - 1
                /\ Recomputed
           ELSE prompt = Before

\* C33: Left and Right move the cursor by one within 0 and the length of
\* the buffer and leave the buffer, the suggestions, the selection, the
\* hint, the history and the history cursor as they were.
C33_ArrowsMoveCursorOnly ==
    event.key \in {"Left", "Right"} =>
        /\ prompt.input = Before.input
        /\ RestAsBefore
        /\ prompt.cursor_pos >= 0
        /\ prompt.cursor_pos <= Len(prompt.input)
        /\ event.key = "Left" =>
               prompt.cursor_pos = IF Before.cursor_pos > 0 THEN Before.cursor_pos - 1
                                   ELSE Before.cursor_pos
        /\ event.key = "Right" =>
               prompt.cursor_pos = IF Before.cursor_pos < Len(Before.input)
                                   THEN Before.cursor_pos + 1
                                   ELSE Before.cursor_pos

(***************************************************************************)
(* Properties of the selection and of the history cursor.                  *)
(***************************************************************************)
\* The key handled last called update_suggestions.
Recomputes ==
    \/ event.key = "Char" /\ pc # "panicked"
    \/ event.key = "Backspace" /\ Before.cursor_pos > 0 /\ pc # "panicked"
    \/ event.executed
    \/ /\ event.key \in {"Up", "Down"}
       /\ Before.suggestions = <<>>
       /\ Before.config.history # <<>>
    \/ TabCompleted

\* C35: in every state the loop renders, no suggestion is selected exactly
\* when the suggestion list is empty, and a recomputation that yields a
\* non-empty list selects its first entry.
C35_SelectionFollowsList ==
    pc = "loop" =>
        /\ prompt.selected_suggestion = None <=> prompt.suggestions = <<>>
        /\ (Recomputes /\ prompt.suggestions # <<>>) =>
               prompt.selected_suggestion = Some(0)

C35_Witness ==
    /\ pc = "loop"
    /\ Recomputes
    /\ Before.selected_suggestion # None
    /\ Before.selected_suggestion[1] >= 1
    /\ prompt.suggestions # <<>>
    /\ prompt.selected_suggestion = Some(0)

C39_SuggestionsBeforeHistory ==
    event.key \in {"Up", "Down"} =>
        /\ Before.suggestions # <<>> =>
               /\ prompt.selected_suggestion # None
               /\ prompt.history_index = Before.history_index
               /\ prompt.input = Before.input
               /\ prompt.config.history = Before.config.history
        /\ (commands # <<>> /\ Before.input = <<>>) =>
               /\ Before.suggestions # <<>>
               /\ prompt.history_index = Before.history_index
        /\ prompt.history_index # Before.history_index => Before.suggestions = <<>>
        /\ prompt.input # Before.input => Before.suggestions = <<>>

C39_Witness ==
    /\ event.key \in {"Up", "Down"}
    /\ commands # <<>>
    /\ Before.history_index # None
    /\ Before.suggestions # <<>>
    /\ Before.input = Before.config.history[Unwrap(Before.history_index) + 1]
    /\ prompt.history_index = Before.history_index
    /\ prompt.selected_suggestion # None

(***************************************************************************)
(* Properties of register_command on a command tree.                       *)
(***************************************************************************)
RECURSIVE NestedPaths(_)
\* The paths of a command and of its descendants, from the command's name.
NestedPaths(command) ==
    {command.name} \cup
    UNION {{command.name \o <<SP>> \o path : path \in NestedPaths(command.subcommands[j])} :
               j \in 1..Len(command.subcommands)}

\* The commands suggested for the empty input.
SuggestedForEmpty ==
    LET s == GetSuggestions(commands, <<>>).suggestions
    IN {s[k] : k \in 1..Len(s)}

\* The top-level entries after the call are those before it and then the
\* nodes of the command's tree in pre-order, each with its subcommands.
AppendedPreOrder(command) ==
    LET nodes == FlattenPreOrder(command)
    IN /\ Len(commands') = Len(commands) + Len(nodes)
       /\ \A k \in 1..Len(nodes) :
              /\ commands'[Len(commands) + k].name = nodes[k].name
              /\ commands'[Len(commands) + k].subcommands = nodes[k].subcommands
              /\ FindCommand(commands', nodes[k].name) # None
              /\ nodes[k].name \in SuggestedForEmpty'

\* C34: register_command on a command appends the nodes of its tree as
\* top-level entries in pre-order, each with its subcommands still under
\* it; the bare name of each resolves with find_command and is suggested
\* for the empty input, and every nested path of the tree still resolves.
C34_SubcommandsKeptAndFlattened ==
    [][\A command \in CommandPool :
           (last'.op = "register" /\ supplied' = supplied \o FlattenPreOrder(command)) =>
               /\ AppendedPreOrder(command)
               /\ \A path \in NestedPaths(command) :
                      FindCommand(commands', path) # None]_vars

(***************************************************************************)
(* Properties of the calls of find_command.                                *)
(***************************************************************************)
\* C37: find_command panics on a path without tokens, and neither
\* get_suggestions nor execute_command calls it with such a path, whatever
\* the input.
C37_RegistryNeverPanicsOnInput ==
    /\ last.op = "find" => (last.panic <=> SplitWhitespace(call_input) = <<>>)
    /\ last.op \in {"suggest", "execute"} => ~last.panic

C37_Witness ==
    /\ last.op \in {"suggest", "execute"}
    /\ call_input # <<>>
    /\ FindCommandPanics(call_input)
    /\ ~last.panic

(***************************************************************************)
(* Properties of the map the handler gets.                                 *)
(***************************************************************************)
DeclaredNames(command) == {command.args[i].name : i \in 1..Len(command.args)}

\* The tail has more positional tokens than the command has arguments.
ExtraPositional == Cardinality(PositionalAt(ArgTail)) > Len(ResolvedCommand.args)

\* The tail has a named token for no argument of the command.
UnknownNamed ==
    \E k \in 1..Len(ArgTail) :
        /\ k \notin PositionalAt(ArgTail)
        /\ \A name \in DeclaredNames(ResolvedCommand) : k \notin NamedAt(ArgTail, name)

\* C38: the keys of the map a handler gets are names of declared
\* arguments of the resolved command and every required argument has an
\* entry; the handler is invoked whenever each required argument gets a
\* value, whatever other tokens the tail holds.
C38_MapHoldsDeclaredArguments ==
    (last.op = "execute" /\ last.command_len > 0) =>
        /\ (IsSome(last.result) /\ Unwrap(last.result).kind = "handled") =>
               LET args == Unwrap(last.result).args
               IN /\ DOMAIN args \subseteq DeclaredNames(ResolvedCommand)
                  /\ \A i \in 1..Len(ResolvedCommand.args) :
                         ~ResolvedCommand.args[i].optional =>
                             ResolvedCommand.args[i].name \in DOMAIN args
        /\ (ResolvedCommand.handler /\ Unbound = {}) =>
               /\ IsSome(last.result)
               /\ Unwrap(last.result).kind = "handled"

C38_Witness ==
    /\ last.op = "execute"
    /\ last.command_len > 0
    /\ IsSome(last.result)
    /\ Unwrap(last.result).kind = "handled"
    /\ ExtraPositional
    /\ UnknownNamed

(***************************************************************************)
(* Properties of the inventory.                                            *)
(***************************************************************************)
\* The call stored (sign 1) or removed (sign -1) its whole quantity of its
\* item and left the totals of the other items alone.
TotalsMoved(sign) ==
    \A item \in ItemPool :
        TotalItemsOf(inventory.slots, item) =
            TotalItemsOf(inventory_call.before, item)
            + (IF item = inventory_call.item THEN sign * inventory_call.quantity ELSE 0)

\* C40: after any add_item and remove_item calls the inventory has at
\* most max_slots slots and each slot holds between 1 unit and the
\* stack_size of its item; add_item returns true only when it stored the
\* whole quantity and remove_item only when it removed the whole quantity.
C40_SlotsWithinLimits ==
    /\ Len(inventory.slots) <= inventory.max_slots
    /\ \A i \in 1..Len(inventory.slots) :
           /\ inventory.slots[i].count >= 1
           /\ inventory.slots[i].count <= inventory.slots[i].item.stack_size
    /\ (inventory_call.op = "add_item" /\ inventory_call.result) => TotalsMoved(1)
    /\ (inventory_call.op = "remove_item" /\ inventory_call.result) => TotalsMoved(-1)

C40_Witness ==
    /\ inventory_call.op = "add_item"
    /\ inventory_call.result
    /\ Len(inventory.slots) > Len(inventory_call.before)
    /\ \E i \in 1..Len(inventory_call.before) :
           inventory.slots[i].count > inventory_call.before[i].count

====
